---------------------------- MODULE Spec2Model ----------------------------
(***************************************************************************)
(* Interrupt-driven transfer engines of avr-lib.                           *)
(*                                                                         *)
(*   - the I2C (TWI) master engine: i2c_init, i2c_master_write,            *)
(*     i2c_master_read, the observers and ISR(TWI_vect)                    *)
(*   - the UART auto transmitter: uart_sendAuto, uart_sendAutoProgress     *)
(*     and uart_sendAuto_ISR, routed from ISR(USART0_TX_vect)              *)
(*   - uart_init, the observers called by the foreground, the split read   *)
(*     of the 16 bit transmit cursor, and the main loop of test.c          *)
(*                                                                         *)
(* Pointers are 16 bit wide (AVR data space), bytes are 8 bit wide.  The   *)
(* control register TWCR is modelled as the set of bit names last written  *)
(* to it.  The TWI hardware is the environment: after every control        *)
(* register write it delivers one of the status codes of enum i2c_status   *)
(* that the bus phase just started can end in.                            *)
(***************************************************************************)
EXTENDS Integers, Sequences, FiniteSets

(***************************************************************************)
(* Bounds of the model.                                                    *)
(***************************************************************************)
\* Largest transfer size a caller passes.
MaxLen == 3
\* Handler invocations of one transfer beyond those a transfer of MaxLen needs.
ExtraEvents == 1
\* Transfers started one after the other.
MaxTransfers == 2

(***************************************************************************)
(* Program constants.                                                      *)
(***************************************************************************)
\* uint16_t / data-space pointer arithmetic is modulo 2^16.
PtrMod == 65536
\* uint8_t arithmetic is modulo 2^8.
ByteMod == 256

\* enum i2c_flag
i2c_flag_holdControl == 1
i2c_flag_retry == 2

\* enum i2c_state
i2c_state_unknown == -1
i2c_state_free == 0
i2c_state_masterWrite == 1
i2c_state_masterRead == 2
i2c_state_error == -2

\* enum i2c_status (AVR TWSR codes)
i2c_status_master_start == 8
i2c_status_master_repeatedStart == 16
i2c_status_master_lost == 56
i2c_status_masterWrite_addrAck == 24
i2c_status_masterWrite_addrNak == 32
i2c_status_masterWrite_dataAck == 40
i2c_status_masterWrite_dataNak == 48
i2c_status_masterRead_addrAck == 64
i2c_status_masterRead_addrNak == 72
i2c_status_masterRead_dataAck == 80
i2c_status_masterRead_dataNak == 88
i2c_status_free == 248
i2c_status_error == 0

\* uart_mode flags
uart_mode_txManual == 1
uart_mode_txAuto == 2
uart_mode_rxManual == 4
uart_mode_rxAuto == 8
uart_mode_stop2 == 16
uart_mode_speedDouble == 32

\* sizeof(msg) of test.c's main
MsgLen == 26

VARIABLES
    \* struct I2C
    state, status, flag, deviceAddr, dataStart, dataPtr, dataEnd,
    \* TWI hardware: TWCR as last written, TWDR, TWSR, whether this master owns
    \* the bus
    twcr, twdr, twsr, busHeld,
    \* struct UART (transmit side)
    tx_ptr, tx_end,
    \* USART hardware: data register and its empty flag, shift register busy,
    \* transmit-complete interrupt flag
    udr, udre, tsrBusy, txc,
    \* data space the buffers live in
    mem,
    \* history of the current I2C transfer: size passed, transfers started,
    \* handler invocations, first failing status code (-1: none), addresses
    \* accessed through dataPtr, acknowledge bit returned for each received byte,
    \* whether the transfer was started on a bus held by a successful write of
    \* at least one byte, stop conditions issued
    xferLen, nXfer, nInv, failCode, acc, ackLog, chained, stops,
    \* arguments of the current I2C transfer's start call: addr and flag
    xferAddr, xferFlag,
    \* history of the current UART stream: size passed, sends started, handler
    \* invocations, whether a manual byte was sent since uart_sendAuto
    txLen, nTx, nTxInv, manualSince,
    \* bytes software has written to the data register since the stream began
    udrLog,
    \* USART configuration: struct UART .mode, the bits set in UCSRnA, UCSRnB
    \* and UCSRnC, UBRRn, and the arguments of the uart_init call (<<>>: none)
    uartMode, ucsra, ucsrb, ucsrc, ubrr, cfgArg,
    \* foreground: position of test.c's main loop, position of a progress
    \* read under way and the cursor byte it has fetched
    pc, rdPc, rdByte,
    \* value returned by the observer called in this step (<<>>: none)
    ret,
    \* lcd1602.c: buffer[2][16], rp, and what the step wrote to the LCD module
    \* (a sequence of [rs, byte]: rs 0 for cmd(), 1 for dat())
    lcdBuf, rp, lcdOut

i2cVars == <<state, status, flag, deviceAddr, dataStart, dataPtr, dataEnd>>
twiVars == <<twcr, twdr, twsr, busHeld>>
i2cHist == <<xferLen, nXfer, nInv, failCode, acc, ackLog, chained, stops,
             xferAddr, xferFlag>>
uartVars == <<tx_ptr, tx_end, udr, udre, tsrBusy, txc>>
uartHist == <<txLen, nTx, nTxInv, manualSince, udrLog>>
cfgVars == <<uartMode, ucsra, ucsrb, ucsrc, ubrr, cfgArg>>
fgVars == <<pc, rdPc, rdByte>>
lcdVars == <<lcdBuf, rp, lcdOut>>
\* Everything the I2C driver does not touch, and everything the UART driver
\* does not touch.
uartSide == <<uartVars, uartHist, cfgVars, fgVars, lcdVars>>
i2cSide == <<i2cVars, twiVars, i2cHist>>
vars == <<i2cSide, uartSide, mem, ret>>

(***************************************************************************)
(* Inputs.                                                                 *)
(***************************************************************************)
\* Address of the caller's buffer.
BufBase == 512
\* Handler invocations the model follows within one transfer.
MaxEvents == MaxLen + 2 + ExtraEvents
\* Data space the model keeps the content of.
Window == BufBase .. (BufBase + MaxEvents + MsgLen)
\* Content of the data space at start-up (the caller's buffer).
Pattern(a) == (a * 37 + 11) % ByteMod
\* Slave addresses passed by the caller (uint8_t, one of them above 127).
Addrs == {39, 167}
\* enum i2c_flag values ORed together.
Flags == 0 .. 3
\* Bytes a slave returns.
RxBytes == {60, 195}
\* TWSR's low bits (prescaler), not part of the status code.
TwsrLowBits == {0, 3}

(***************************************************************************)
(* Arithmetic.                                                             *)
(***************************************************************************)
Add16(p, n) == (p + n) % PtrMod
Sub16(a, b) == (a - b + PtrMod) % PtrMod
\* x & bit, for a single-bit mask.
AndBit(x, bit) == IF (x \div bit) % 2 = 1 THEN bit ELSE 0
\* TWSR taken without the mask.
MaskStatus_raw(sr) == sr
\* TWSR & 0xF8
MaskStatus(sr) == sr - (sr % 8)

(***************************************************************************)
(* Observers.                                                              *)
(***************************************************************************)
i2c_getStatus == status
i2c_getState == state
\* i2c_getProgress returning the bytes done instead of the bytes left.
i2c_getProgress_done == Sub16(dataPtr, dataStart)
i2c_getProgress == Sub16(dataEnd, dataPtr)
uart_sendAutoProgress == Sub16(tx_end, tx_ptr)

(***************************************************************************)
(* uart_init (uart.h).  The configuration registers are modelled as the    *)
(* set of bit names set in them; `|=` adds bits.                           *)
(***************************************************************************)
\* x | bit, for a single-bit mask.
OrBit(x, bit) == x + bit - AndBit(x, bit)

\* Registers and uart->mode before the first uart_init (hardware reset).
UartReset ==
    [mode |-> 0, ucsra |-> {}, ucsrb |-> {},
     ucsrc |-> {"UCSZ01", "UCSZ00"}, ubrr |-> 0]

\* uint16_t clk = f_cpu / div / baud - 1, stored to the two baud registers
BaudClk(f_cpu, div, baud) == (((f_cpu \div div) \div baud) - 1 + PtrMod) % PtrMod

\* The test the code makes for an option flag: (mode | flag).
FlagTest(mode, f) == OrBit(mode, f) # 0

\* State of *uart and of the registers after uart_init(uart, sfr, f_cpu, baud, mode).
UartInit(u, f_cpu, baud, mode) ==
    LET double == FlagTest(mode, uart_mode_speedDouble)
        txA == FlagTest(mode, uart_mode_txAuto)
        txM == ~txA /\ FlagTest(mode, uart_mode_txManual)
        rxA == FlagTest(mode, uart_mode_rxAuto)
        rxM == ~rxA /\ FlagTest(mode, uart_mode_rxManual)
    IN  [mode |-> (IF txA THEN uart_mode_txAuto
                   ELSE IF txM THEN uart_mode_txManual ELSE 0)
                  + (IF rxA THEN uart_mode_rxAuto
                     ELSE IF rxM THEN uart_mode_rxManual ELSE 0),
         ucsra |-> u.ucsra \cup (IF double THEN {"U2X0"} ELSE {}),
         ucsrb |-> u.ucsrb
                   \cup (IF txA THEN {"TXEN0", "TXCIE0"}
                         ELSE IF txM THEN {"TXEN0"} ELSE {})
                   \cup (IF rxA THEN {"RXEN0", "RXCIE0"}
                         ELSE IF rxM THEN {"RXEN0"} ELSE {}),
         ucsrc |-> u.ucsrc
                   \cup (IF FlagTest(mode, uart_mode_stop2) THEN {"USBS0"} ELSE {}),
         ubrr |-> BaudClk(f_cpu, IF double THEN 8 ELSE 16, baud)]

\* uart_init of test.c's older copy of the library: config is a struct of
\* txEnable, rxEnable (0 disable, 1 manual, 2 auto), stopBits and speed.
UartInitTest(u, f_cpu, baud, config) ==
    [mode |-> config,
     ucsra |-> u.ucsra \cup (IF config.speed = 1 THEN {"U2X0"} ELSE {}),
     ucsrb |-> u.ucsrb
               \cup (IF config.txEnable = 1 THEN {"TXEN0"}
                     ELSE IF config.txEnable = 2 THEN {"TXEN0", "TXCIE0"} ELSE {})
               \cup (IF config.rxEnable = 1 THEN {"RXEN0"}
                     ELSE IF config.rxEnable = 2 THEN {"RXEN0", "RXCIE0"} ELSE {}),
     ucsrc |-> u.ucsrc \cup (IF config.speed = 1 THEN {"USBS0"} ELSE {}),
     ubrr |-> BaudClk(f_cpu, IF config.speed # 0 THEN 8 ELSE 16, baud)]

\* The call test.c's main makes.
TestConfig == [txEnable |-> 2, rxEnable |-> 1, stopBits |-> 1, speed |-> 0]
TestCpu == 16000000
TestBaud == 9600

\* Arguments the model passes to uart_init.
CpuClocks == {TestCpu, 8000000}
BaudRates == {TestBaud, 57600}
UartModes == 0 .. 63

(***************************************************************************)
(* Init: the global struct I2C is zero-initialised except .state; the      *)
(* global UART object is zero-initialised.  InitReset is the state at      *)
(* reset; Init is the state after main's uart_init call: the transmitter   *)
(* is enabled in auto mode, its interrupt routed to uart_sendAuto_ISR.     *)
(***************************************************************************)
InitCommon ==
    /\ state = i2c_state_unknown
    /\ status = 0
    /\ flag = 0
    /\ deviceAddr = 0
    /\ dataStart = 0 /\ dataPtr = 0 /\ dataEnd = 0
    /\ twcr = {} /\ twdr = 255 /\ twsr = i2c_status_free /\ busHeld = FALSE
    /\ tx_ptr = 0 /\ tx_end = 0
    /\ udr = 0 /\ udre = TRUE /\ tsrBusy = FALSE /\ txc = FALSE
    /\ mem = [a \in Window |-> Pattern(a)]
    /\ xferLen = 0 /\ nXfer = 0 /\ nInv = 0 /\ failCode = -1
    /\ acc = {} /\ ackLog = <<>> /\ chained = FALSE /\ stops = 0
    /\ xferAddr = 0 /\ xferFlag = 0
    /\ txLen = 0 /\ nTx = 0 /\ nTxInv = 0 /\ manualSince = FALSE
    /\ udrLog = <<>>
    /\ pc = "ready" /\ rdPc = "idle" /\ rdByte = 0
    /\ ret = <<>>
    /\ lcdBuf = [r \in 0 .. 1 |-> [c \in 0 .. 15 |-> 32]]
    /\ rp = 0
    /\ lcdOut = <<>>

InitCfg(u) ==
    /\ uartMode = u.mode
    /\ ucsra = u.ucsra /\ ucsrb = u.ucsrb /\ ucsrc = u.ucsrc
    /\ ubrr = u.ubrr

InitReset == InitCommon /\ InitCfg(UartReset) /\ cfgArg = <<>>

Init ==
    /\ InitCommon
    /\ InitCfg(UartInitTest(UartReset, TestCpu, TestBaud, TestConfig))
    /\ cfgArg = <<TestCpu, TestBaud, TestConfig>>

\* uart_init called once, from reset, with any combination of option flags.
uart_init ==
    /\ cfgArg = <<>>
    /\ \E f_cpu \in CpuClocks, baud \in BaudRates, mode \in UartModes :
        LET u == UartInit([mode |-> uartMode, ucsra |-> ucsra, ucsrb |-> ucsrb,
                           ucsrc |-> ucsrc, ubrr |-> ubrr], f_cpu, baud, mode)
        IN  /\ uartMode' = u.mode
            /\ ucsra' = u.ucsra /\ ucsrb' = u.ucsrb /\ ucsrc' = u.ucsrc
            /\ ubrr' = u.ubrr
            /\ cfgArg' = <<f_cpu, baud, mode>>
    /\ UNCHANGED <<i2cSide, uartVars, uartHist, fgVars, lcdVars, mem>>
    /\ ret' = <<>>

SpecCfg == InitReset /\ [][uart_init]_vars

(***************************************************************************)
(* i2c_init                                                                *)
(***************************************************************************)
i2c_init ==
    /\ state = i2c_state_unknown
    /\ state' = i2c_state_free
    /\ UNCHANGED <<status, flag, deviceAddr, dataStart, dataPtr, dataEnd>>
    /\ UNCHANGED <<twiVars, i2cHist, uartSide, mem>>
    /\ ret' = <<>>

(***************************************************************************)
(* i2c_master_write / i2c_master_read.  The caller starts a transfer only  *)
(* while the context is free.                                              *)
(***************************************************************************)
TWCR_start == {"TWINT", "TWSTA", "TWEN", "TWIE"}

\* The address byte without the truncation to uint8_t.
WriteAddrByte_wide(addr) == addr * 2
WriteAddrByte(addr) == (addr * 2) % ByteMod
ReadAddrByte(addr) == ((addr * 2) % ByteMod) + 1

StartHistory(addr, f, size) ==
    /\ xferAddr' = addr
    /\ xferFlag' = f
    /\ xferLen' = size
    /\ nXfer' = nXfer + 1
    /\ nInv' = 0
    /\ failCode' = -1
    /\ acc' = {}
    /\ ackLog' = <<>>
    /\ chained' = (busHeld /\ deviceAddr % 2 = 0 /\ xferLen >= 1 /\ failCode = -1)
    /\ stops' = 0

i2c_master_write ==
    /\ state = i2c_state_free
    /\ nXfer < MaxTransfers
    /\ \E addr \in Addrs, f \in Flags, size \in 0 .. MaxLen :
        /\ state' = i2c_state_masterWrite
        /\ flag' = f
        /\ deviceAddr' = WriteAddrByte(addr)
        /\ dataStart' = BufBase
        /\ dataPtr' = BufBase
        /\ dataEnd' = Add16(BufBase, size)
        /\ twcr' = TWCR_start
        /\ StartHistory(addr, f, size)
    /\ UNCHANGED <<status, twdr, twsr, busHeld, mem, uartSide>>
    /\ ret' = <<>>

i2c_master_read ==
    /\ state = i2c_state_free
    /\ nXfer < MaxTransfers
    /\ \E addr \in Addrs, f \in Flags, size \in 0 .. MaxLen :
        /\ state' = i2c_state_masterRead
        /\ flag' = f
        /\ deviceAddr' = ReadAddrByte(addr)
        /\ dataStart' = BufBase
        /\ dataPtr' = BufBase
        /\ dataEnd' = Add16(BufBase, size)
        /\ twcr' = TWCR_start
        /\ StartHistory(addr, f, size)
    /\ UNCHANGED <<status, twdr, twsr, busHeld, mem, uartSide>>
    /\ ret' = <<>>

(***************************************************************************)
(* TWI hardware: the status codes the bus can deliver next, given the      *)
(* control register as last written, the code of the previous event in     *)
(* TWSR (the bus phase it ended) and the direction bit of the address byte  *)
(* in TWDR.                                                                *)
(* No interrupt is raised unless TWINT was cleared with TWIE set.          *)
(***************************************************************************)
\* Codes outside enum i2c_status (0x68: arbitration lost, addressed as slave).
UnrecognizedCodes == {104}
FaultCodes == {i2c_status_master_lost, i2c_status_error} \cup UnrecognizedCodes
StartCodes == {i2c_status_master_start, i2c_status_master_repeatedStart}
WriteCodes ==
    {i2c_status_masterWrite_addrAck, i2c_status_masterWrite_addrNak,
     i2c_status_masterWrite_dataAck, i2c_status_masterWrite_dataNak}

Deliverable ==
    IF ~({"TWINT", "TWEN", "TWIE"} \subseteq twcr) THEN {}
    ELSE IF "TWSTA" \in twcr
        THEN {IF busHeld THEN i2c_status_master_repeatedStart
                         ELSE i2c_status_master_start}
    ELSE IF MaskStatus(twsr) \in StartCodes
        THEN (IF twdr % 2 = 0
                THEN {i2c_status_masterWrite_addrAck, i2c_status_masterWrite_addrNak}
                ELSE {i2c_status_masterRead_addrAck, i2c_status_masterRead_addrNak})
             \cup FaultCodes
    ELSE IF MaskStatus(twsr) \in WriteCodes
        THEN {i2c_status_masterWrite_dataAck, i2c_status_masterWrite_dataNak}
             \cup FaultCodes
    ELSE IF MaskStatus(twsr) \in {i2c_status_masterRead_addrAck, i2c_status_masterRead_dataAck}
        THEN (IF "TWEA" \in twcr THEN {i2c_status_masterRead_dataAck}
                                 ELSE {i2c_status_masterRead_dataNak})
             \cup FaultCodes
    ELSE {}

(***************************************************************************)
(* ISR(TWI_vect): the control values it writes and its branches.           *)
(***************************************************************************)
\* ReadMem reading behind the pointer (pointer advanced before the read).
ReadMem_next(p) == IF Add16(p, 1) \in DOMAIN mem THEN mem[Add16(p, 1)] ELSE 255
ReadMem(p) == IF p \in DOMAIN mem THEN mem[p] ELSE 255
\* WriteMem storing behind the pointer (pointer advanced before the store).
WriteMem_next(p, b) ==
    IF Add16(p, 1) \in DOMAIN mem THEN [mem EXCEPT ![Add16(p, 1)] = b] ELSE mem
WriteMem(p, b) == IF p \in DOMAIN mem THEN [mem EXCEPT ![p] = b] ELSE mem

\* TWCR = (1 << TWINT) | (1 << TWEN) | (1 << TWIE)
TWCR_continue == {"TWINT", "TWEN", "TWIE"}
\* TWCR = (1 << TWINT) | (1 << TWSTO) | (1 << TWEN)
TWCR_stop == {"TWINT", "TWSTO", "TWEN"}
\* TWCR_default leaving the interrupt enabled.
TWCR_default_armed == {"TWINT", "TWEN", "TWIE"}
\* default: TWCR = (1 << TWINT) | (1 << TWEN)
TWCR_default == {"TWINT", "TWEN"}
\* TWCR_complete with the hold flag ignored: the bus is always released.
TWCR_complete_release(f) == TWCR_stop
\* TWCR_complete with the bus always held.
TWCR_complete_hold(f) == {"TWEN"}
\* end of a transfer: hold the bus or release it
TWCR_complete(f) ==
    IF AndBit(f, i2c_flag_holdControl) # 0 THEN {"TWEN"} ELSE TWCR_stop
\* AckNext comparing against end instead of end - 1.
AckNext_offByOne(ptr, end) == ptr # end
\* (i2c.dataPtr != (i2c.dataEnd-1) ? 1 : 0) << TWEA
AckNext(ptr, end) == ptr # Sub16(end, 1)
TWCR_receive(ptr, end) ==
    TWCR_continue \cup (IF AckNext(ptr, end) THEN {"TWEA"} ELSE {})

\* case i2c_status_master_start, i2c_status_master_repeatedStart
ISR_start ==
    /\ twdr' = deviceAddr
    /\ twcr' = TWCR_continue
    /\ UNCHANGED <<state, dataPtr, mem, acc, ackLog>>

\* case i2c_status_masterWrite_addrAck .. i2c_status_masterWrite_dataNak
ISR_masterWrite ==
    IF dataPtr # dataEnd
    THEN /\ twdr' = ReadMem(dataPtr)
         /\ dataPtr' = Add16(dataPtr, 1)
         /\ acc' = acc \cup {dataPtr}
         /\ twcr' = TWCR_continue
         /\ UNCHANGED <<state, mem, ackLog>>
    ELSE /\ state' = i2c_state_free
         /\ twcr' = TWCR_complete(flag)
         /\ UNCHANGED <<twdr, dataPtr, mem, acc, ackLog>>

\* case i2c_status_masterRead_addrAck
ISR_readAddrAck ==
    /\ twcr' = TWCR_receive(dataPtr, dataEnd)
    /\ UNCHANGED <<state, twdr, dataPtr, mem, acc, ackLog>>

\* ISR_readAddrNak ending like a completed transfer: hold or release per flag.
ISR_readAddrNak_hold ==
    /\ state' = i2c_state_free
    /\ twcr' = TWCR_complete(flag)
    /\ UNCHANGED <<twdr, dataPtr, mem, acc, ackLog>>

\* case i2c_status_masterRead_addrNak
ISR_readAddrNak ==
    /\ state' = i2c_state_free
    /\ twcr' = TWCR_stop
    /\ UNCHANGED <<twdr, dataPtr, mem, acc, ackLog>>

\* case i2c_status_masterRead_dataAck; rx is the byte the hardware put in TWDR
ISR_readDataAck(rx) ==
    /\ twdr' = rx
    /\ mem' = WriteMem(dataPtr, rx)
    /\ acc' = acc \cup {dataPtr}
    /\ dataPtr' = Add16(dataPtr, 1)
    /\ twcr' = TWCR_receive(dataPtr', dataEnd)
    /\ ackLog' = Append(ackLog, "TWEA" \in twcr)
    /\ UNCHANGED state

\* case i2c_status_masterRead_dataNak
ISR_readDataNak(rx) ==
    /\ twdr' = rx
    /\ mem' = WriteMem(dataPtr, rx)
    /\ acc' = acc \cup {dataPtr}
    /\ dataPtr' = Add16(dataPtr, 1)
    /\ state' = i2c_state_free
    /\ twcr' = TWCR_complete(flag)
    /\ ackLog' = Append(ackLog, "TWEA" \in twcr)

\* case i2c_status_error
ISR_error ==
    /\ state' = i2c_state_free
    /\ twcr' = TWCR_stop
    /\ UNCHANGED <<twdr, dataPtr, mem, acc, ackLog>>

\* ISR_default falling into the bus-error case: a stop condition is forced.
ISR_default_stop ==
    /\ state' = i2c_state_free
    /\ twcr' = TWCR_stop
    /\ UNCHANGED <<twdr, dataPtr, mem, acc, ackLog>>

\* ISR_default starting the transfer again after a lost arbitration when the
\* retry flag is set.
ISR_default_retry ==
    IF AndBit(flag, i2c_flag_retry) # 0 /\ status' = i2c_status_master_lost
    THEN /\ twcr' = TWCR_start
         /\ dataPtr' = dataStart
         /\ UNCHANGED <<state, twdr, mem, acc, ackLog>>
    ELSE /\ state' = i2c_state_free
         /\ twcr' = TWCR_default
         /\ UNCHANGED <<twdr, dataPtr, mem, acc, ackLog>>

\* default
ISR_default ==
    /\ state' = i2c_state_free
    /\ twcr' = TWCR_default
    /\ UNCHANGED <<twdr, dataPtr, mem, acc, ackLog>>

\* Codes of events in which an address or data byte was not transferred.
SuccessCodes ==
    StartCodes \cup
    {i2c_status_masterWrite_addrAck, i2c_status_masterWrite_dataAck,
     i2c_status_masterRead_addrAck, i2c_status_masterRead_dataAck,
     i2c_status_masterRead_dataNak}

\* The handler, invoked with TWSR = sr and, after a reception, TWDR = rx.
Handler(sr, rx) ==
    LET code == MaskStatus(sr) IN
    /\ twsr' = sr
    /\ status' = code
    /\ CASE code \in StartCodes -> ISR_start
         [] code \in WriteCodes -> ISR_masterWrite
         [] code = i2c_status_masterRead_addrAck -> ISR_readAddrAck
         [] code = i2c_status_masterRead_addrNak -> ISR_readAddrNak
         [] code = i2c_status_masterRead_dataAck -> ISR_readDataAck(rx)
         [] code = i2c_status_masterRead_dataNak -> ISR_readDataNak(rx)
         [] code = i2c_status_error -> ISR_error
         [] OTHER -> ISR_default
    /\ nInv' = nInv + 1
    /\ failCode' = IF failCode = -1 /\ code \notin SuccessCodes THEN code ELSE failCode
    /\ stops' = IF "TWSTO" \in twcr' THEN stops + 1 ELSE stops
    /\ busHeld' = IF code \in StartCodes THEN TRUE
                  ELSE IF state' = i2c_state_free /\ "TWINT" \in twcr' THEN FALSE
                  ELSE busHeld
    /\ UNCHANGED <<flag, deviceAddr, dataStart, dataEnd, xferLen, nXfer, chained>>
    /\ UNCHANGED <<xferAddr, xferFlag, uartSide>>
    /\ ret' = <<>>

ISR_TWI ==
    /\ nInv < MaxEvents
    /\ \E code \in Deliverable, low \in TwsrLowBits, rx \in RxBytes :
        Handler(code + low, rx)

Next ==
    \/ i2c_init
    \/ i2c_master_write
    \/ i2c_master_read
    \/ ISR_TWI

Spec == Init /\ [][Next]_vars

(***************************************************************************)
(* UART transmitter.  A write of the data register is taken only while    *)
(* the register is empty.  The hardware moves the byte to the shift        *)
(* register and, when a byte has been shifted out with the data register   *)
(* empty, raises the transmit interrupt, which is routed to                *)
(* uart_sendAuto_ISR and preempts the foreground.  The caller sends only   *)
(* while uart_sendFree() holds.                                            *)
(***************************************************************************)
\* Bytes passed to uart_sendManual.
ManualBytes == {85}

uart_sendFree == udre

\* uart->srfAddr[SFR_DATA] = b
WriteUDR(b) ==
    /\ IF udre THEN udr' = b /\ udre' = FALSE
               ELSE udr' = udr /\ udre' = udre
    /\ udrLog' = Append(udrLog, b)

\* Handler invocations the model follows within one stream.
TxEvents == txLen + 2 + ExtraEvents

uart_sendManual ==
    /\ ~txc
    /\ uart_sendFree
    /\ nTx < MaxTransfers
    /\ \E b \in ManualBytes : WriteUDR(b)
    /\ nTx' = nTx + 1
    /\ manualSince' = TRUE
    /\ UNCHANGED <<tx_ptr, tx_end, tsrBusy, txc, txLen, nTxInv>>
    /\ UNCHANGED <<i2cSide, mem, cfgVars, lcdVars, fgVars>>
    /\ ret' = <<>>

\* Body of uart_sendAuto(uart, data, size) / test.c's uart_sendString: the
\* first byte goes to the data register before the cursor is bound.
SendAuto(data, size) ==
    /\ udr' = (IF udre THEN ReadMem(data) ELSE udr)
    /\ udre' = FALSE
    /\ udrLog' = <<ReadMem(data)>>
    /\ tx_ptr' = data
    /\ tx_end' = Add16(data, size)
    /\ txLen' = size
    /\ nTxInv' = 0
    /\ manualSince' = FALSE
    /\ UNCHANGED <<tsrBusy, txc>>
    /\ UNCHANGED <<i2cSide, mem, cfgVars, lcdVars>>
    /\ ret' = <<>>

uart_sendAuto ==
    /\ ~txc
    /\ uart_sendFree
    /\ nTx < MaxTransfers
    /\ \E size \in 0 .. MaxLen : SendAuto(BufBase, size)
    /\ nTx' = nTx + 1
    /\ UNCHANGED fgVars

\* uart_sendAuto_ISR comparing before it advances the cursor.
TxMore_before(ptr, end) == Sub16(ptr, 1) # end
\* uart_sendAuto_ISR without the end test.
TxMore_always(ptr, end) == TRUE
\* if (uart->tx_ptr != uart->tx_end), evaluated after uart->tx_ptr++
TxMore(ptr, end) == ptr # end

uart_sendAuto_ISR ==
    /\ txc
    /\ "TXCIE0" \in ucsrb
    /\ nTxInv < TxEvents
    /\ txc' = FALSE
    /\ tx_ptr' = Add16(tx_ptr, 1)
    /\ IF TxMore(tx_ptr', tx_end)
       THEN WriteUDR(ReadMem(tx_ptr'))
       ELSE UNCHANGED <<udr, udre, udrLog>>
    /\ nTxInv' = nTxInv + 1
    /\ UNCHANGED <<tx_end, tsrBusy, txLen, nTx, manualSince>>
    /\ UNCHANGED <<i2cSide, mem, cfgVars, lcdVars, fgVars>>
    /\ ret' = <<>>

\* The transmitter takes the byte in the data register.
USART_load ==
    /\ ~udre /\ ~tsrBusy
    /\ udre' = TRUE
    /\ tsrBusy' = TRUE
    /\ UNCHANGED <<tx_ptr, tx_end, udr, txc, uartHist>>
    /\ UNCHANGED <<i2cSide, mem, cfgVars, lcdVars, fgVars>>
    /\ ret' = <<>>

\* The byte has been shifted out.
USART_shifted ==
    /\ tsrBusy
    /\ tsrBusy' = FALSE
    /\ txc' = IF udre THEN TRUE ELSE txc
    /\ UNCHANGED <<tx_ptr, tx_end, udr, udre, uartHist>>
    /\ UNCHANGED <<i2cSide, mem, cfgVars, lcdVars, fgVars>>
    /\ ret' = <<>>

NextUart ==
    \/ uart_sendManual
    \/ uart_sendAuto
    \/ uart_sendAuto_ISR
    \/ USART_load
    \/ USART_shifted

SpecUart == Init /\ [][NextUart]_vars

(***************************************************************************)
(* test.c: main's loop, with ISR(USART0_TX_vect) routed to the handler.    *)
(* A busy-wait leaves its loop when its condition is read as satisfied.    *)
(***************************************************************************)
\* while (!uart_sendReady(&serial));
main_waitReady ==
    /\ pc = "ready"
    /\ ~txc
    /\ uart_sendFree
    /\ pc' = "send"
    /\ UNCHANGED <<rdPc, rdByte, uartVars, uartHist, cfgVars, lcdVars, i2cSide, mem>>
    /\ ret' = <<>>

\* uart_sendString(&serial, msg, sizeof(msg));
main_send ==
    /\ pc = "send"
    /\ ~txc
    /\ SendAuto(BufBase, MsgLen)
    /\ nTx' = (IF nTx < MaxTransfers THEN nTx + 1 ELSE nTx)
    /\ pc' = "wait"
    /\ UNCHANGED <<rdPc, rdByte>>

\* while (uart_sendStringProgress(&serial));
main_waitProgress ==
    /\ pc = "wait"
    /\ ~txc
    /\ uart_sendAutoProgress = 0
    /\ pc' = "ready"
    /\ UNCHANGED <<rdPc, rdByte, uartVars, uartHist, cfgVars, lcdVars, i2cSide, mem>>
    /\ ret' = <<>>

NextMain ==
    \/ main_waitReady
    \/ main_send
    \/ main_waitProgress
    \/ uart_sendAuto_ISR
    \/ USART_load
    \/ USART_shifted

\* The transmitter keeps shifting, its interrupt is delivered and the
\* foreground keeps running.
SpecMain ==
    /\ Init /\ [][NextMain]_vars
    /\ WF_vars(main_waitReady) /\ WF_vars(main_send)
    /\ WF_vars(main_waitProgress)
    /\ WF_vars(uart_sendAuto_ISR)
    /\ WF_vars(USART_load) /\ WF_vars(USART_shifted)

(***************************************************************************)
(* uart_sendAutoProgress evaluated by the foreground while the interrupt   *)
(* is enabled.  tx_ptr is a 16 bit object on an 8 bit CPU: it is fetched   *)
(* with two loads, in either order, and the handler can run between them.  *)
(* tx_end is not written by the handler, so the order of its loads makes   *)
(* no difference.                                                          *)
(***************************************************************************)
\* Buffers passed to uart_sendAuto: one that spans a 256 byte page of the
\* data space, and a short one.
RaceBuffers == {<<3 * ByteMod - 1, ByteMod>>, <<BufBase, 2>>}
\* The two bytes of a pointer.
LowByte(p) == p % ByteMod
HighByte(p) == p \div ByteMod

race_sendAuto ==
    /\ ~txc
    /\ rdPc = "idle"
    /\ uart_sendFree
    /\ nTx < MaxTransfers
    /\ \E b \in RaceBuffers : SendAuto(b[1], b[2])
    /\ nTx' = nTx + 1
    /\ UNCHANGED fgVars

\* first load of uart->tx_ptr
progress_first ==
    /\ ~txc
    /\ rdPc = "idle"
    /\ \E half \in {"low", "high"} :
        /\ rdPc' = half
        /\ rdByte' = (IF half = "low" THEN LowByte(tx_ptr) ELSE HighByte(tx_ptr))
    /\ UNCHANGED <<pc, uartVars, uartHist, cfgVars, lcdVars, i2cSide, mem>>
    /\ ret' = <<>>

\* second load of uart->tx_ptr, and return uart->tx_end - uart->tx_ptr
progress_second ==
    /\ ~txc
    /\ rdPc # "idle"
    /\ LET ptr == IF rdPc = "low"
                  THEN HighByte(tx_ptr) * ByteMod + rdByte
                  ELSE rdByte * ByteMod + LowByte(tx_ptr)
       IN  ret' = <<"uart_sendAutoProgress", Sub16(tx_end, ptr)>>
    /\ rdPc' = "idle"
    /\ rdByte' = 0
    /\ UNCHANGED <<pc, uartVars, uartHist, cfgVars, lcdVars, i2cSide, mem>>

NextRace ==
    \/ race_sendAuto
    \/ progress_first
    \/ progress_second
    \/ uart_sendAuto_ISR
    \/ USART_load
    \/ USART_shifted

SpecRace == Init /\ [][NextRace]_vars

(***************************************************************************)
(* uart_sendAuto statement by statement, the interrupt enabled: first the  *)
(* store to the data register, then the assignments of tx_ptr and tx_end.  *)
(* pc = "bind" while the foreground is between the two.                    *)
(***************************************************************************)
\* uart->srfAddr[SFR_DATA] = *data;
sendAuto_write ==
    /\ pc = "ready"
    /\ ~txc
    /\ uart_sendFree
    /\ nTx < MaxTransfers
    /\ udr' = ReadMem(BufBase)
    /\ udre' = FALSE
    /\ udrLog' = <<ReadMem(BufBase)>>
    /\ \E size \in 0 .. MaxLen : txLen' = size
    /\ nTx' = nTx + 1
    /\ nTxInv' = 0
    /\ manualSince' = FALSE
    /\ pc' = "bind"
    /\ UNCHANGED <<tx_ptr, tx_end, tsrBusy, txc, rdPc, rdByte>>
    /\ UNCHANGED <<i2cSide, mem, cfgVars, lcdVars>>
    /\ ret' = <<>>

\* uart->tx_ptr = data; uart->tx_end = data + size;
sendAuto_bind ==
    /\ pc = "bind"
    /\ ~txc
    /\ tx_ptr' = BufBase
    /\ tx_end' = Add16(BufBase, txLen)
    /\ pc' = "ready"
    /\ UNCHANGED <<udr, udre, tsrBusy, txc, uartHist, rdPc, rdByte>>
    /\ UNCHANGED <<i2cSide, mem, cfgVars, lcdVars>>
    /\ ret' = <<>>

NextSplit ==
    \/ sendAuto_write
    \/ sendAuto_bind
    \/ uart_sendAuto_ISR
    \/ USART_load
    \/ USART_shifted

SpecSplit == Init /\ [][NextSplit]_vars

(***************************************************************************)
(* The observers, called by the foreground at any time.  ret holds the     *)
(* name of the observer called in the step and the value it returned.      *)
(* A call is one step and the caller takes the value in the next.  The     *)
(* two drivers share no state, so SpecObs follows one driver at a time.    *)
(***************************************************************************)
call_getStatus ==
    /\ ret = <<>>
    /\ ret' = <<"i2c_getStatus", i2c_getStatus>>
    /\ UNCHANGED <<i2cSide, uartSide, mem>>

call_getState ==
    /\ ret = <<>>
    /\ ret' = <<"i2c_getState", i2c_getState>>
    /\ UNCHANGED <<i2cSide, uartSide, mem>>

call_getProgress ==
    /\ ret = <<>>
    /\ ret' = <<"i2c_getProgress", i2c_getProgress>>
    /\ UNCHANGED <<i2cSide, uartSide, mem>>

call_sendAutoProgress ==
    /\ ret = <<>>
    /\ ret' = <<"uart_sendAutoProgress", uart_sendAutoProgress>>
    /\ UNCHANGED <<i2cSide, uartSide, mem>>

\* The caller has taken the returned value.
call_return ==
    /\ ret # <<>>
    /\ ret' = <<>>
    /\ UNCHANGED <<i2cSide, uartSide, mem>>

NextObs ==
    \/ (ret = <<>> /\ nTx = 0 /\ Next)
    \/ (ret = <<>> /\ nXfer = 0 /\ state = i2c_state_unknown /\ NextUart)
    \/ call_getStatus
    \/ call_getState
    \/ call_getProgress
    \/ call_sendAutoProgress
    \/ call_return

SpecObs == Init /\ [][NextObs]_vars

(***************************************************************************)
(* lcd1602.c: the buffered LCD driver.  Init holds the state lcd1602_init  *)
(* leaves: the buffer blank, rp = 0.  cmd() and dat() each send one byte   *)
(* to the module (as two nibbles), with RS low and high.  The callers      *)
(* keep to the documented ranges: row 0 or 1, column 0 to 15,              *)
(* column + cnt <= 16.                                                     *)
(***************************************************************************)
\* Arguments passed to lcd1602_writec and lcd1602_writes.
LcdColumns == {0, 15}
LcdChars == {65}
LcdStrings == {<<14, <<66, 67>>>>}

\* x & 0x0F and (x & 0x20) >> 5
LcdColumn(x) == x % 16
LcdRow(x) == (x \div 32) % 2

\* lcd1602_evt leaving row 0 one column early.
LcdRowEnd_short(row) == row * 32 + 15
\* rp at the end of a row: 0x10 and 0x30
LcdRowEnd(row) == row * 32 + 16

lcd1602_writec ==
    /\ \E row \in 0 .. 1, column \in LcdColumns, data \in LcdChars :
        lcdBuf' = [lcdBuf EXCEPT ![row][column] = data]
    /\ lcdOut' = <<>>
    /\ UNCHANGED <<rp, i2cSide, uartVars, uartHist, cfgVars, fgVars, mem>>
    /\ ret' = <<>>

lcd1602_writes ==
    /\ \E row \in 0 .. 1, s \in LcdStrings :
        lcdBuf' = [lcdBuf EXCEPT ![row] =
                     [c \in 0 .. 15 |->
                        IF s[1] <= c /\ c < s[1] + Len(s[2])
                        THEN s[2][c - s[1] + 1] ELSE lcdBuf[row][c]]]
    /\ lcdOut' = <<>>
    /\ UNCHANGED <<rp, i2cSide, uartVars, uartHist, cfgVars, fgVars, mem>>
    /\ ret' = <<>>

lcd1602_evt ==
    /\ IF rp = LcdRowEnd(0)
       THEN /\ lcdOut' = <<[rs |-> 0, byte |-> 192]>>
            /\ rp' = 32
       ELSE IF rp = LcdRowEnd(1)
       THEN /\ lcdOut' = <<[rs |-> 0, byte |-> 128]>>
            /\ rp' = 0
       ELSE /\ lcdOut' = <<[rs |-> 1, byte |-> lcdBuf[LcdRow(rp)][LcdColumn(rp)]]>>
            /\ rp' = (rp + 1) % ByteMod
    /\ UNCHANGED <<lcdBuf, i2cSide, uartVars, uartHist, cfgVars, fgVars, mem>>
    /\ ret' = <<>>

NextLcd ==
    \/ lcd1602_writec
    \/ lcd1602_writes
    \/ lcd1602_evt

SpecLcd == Init /\ [][NextLcd]_vars

(***************************************************************************)
(* Properties of the I2C engine.                                           *)
(***************************************************************************)
\* The step is one invocation of ISR(TWI_vect).
HandlerStep == nInv' = nInv + 1
\* The status code the handler was invoked with in this step.
EventCode == MaskStatus(twsr')
\* Direction of the current transfer, from the address byte.
IsWriteXfer == nXfer >= 1 /\ deviceAddr % 2 = 0
IsReadXfer == nXfer >= 1 /\ deviceAddr % 2 = 1
HoldBus == AndBit(flag, i2c_flag_holdControl) # 0
\* Status codes the handler's switch has a case for.
HandledCodes ==
    StartCodes \cup WriteCodes \cup
    {i2c_status_masterRead_addrAck, i2c_status_masterRead_addrNak,
     i2c_status_masterRead_dataAck, i2c_status_masterRead_dataNak,
     i2c_status_error}
\* Status codes enum i2c_status names.
EnumCodes == HandledCodes \cup {i2c_status_master_lost, i2c_status_free}

\* C1: a transfer of length N is back to Idle after at most one start event,
\* N + 1 address and data byte events and one error event: while the state is
\* not Idle fewer than N + 3 handler invocations have happened.
C1_BoundedTermination ==
    state \in {i2c_state_masterWrite, i2c_state_masterRead}
        => nInv < xferLen + 3

\* C2: in a master write an address-NAK or data-NAK event ends the transfer in
\* that handler invocation: state becomes Idle, the data register is not
\* loaded and the cursor stays, whatever the remaining byte count.
C2_WriteNakEndsTransfer ==
    [][ (HandlerStep /\ state = i2c_state_masterWrite
            /\ EventCode \in {i2c_status_masterWrite_addrNak,
                              i2c_status_masterWrite_dataNak})
        => (state' = i2c_state_free /\ dataPtr' = dataPtr /\ twdr' = twdr) ]_vars

\* C3: after a transfer of length N >= 1 is back to Idle, getProgress() = 0
\* iff no event of the transfer was a failure, and a failed transfer has a
\* non-zero progress and lastStatus equal to the failing event's code.
C3_ProgressZeroIffSuccess ==
    (state = i2c_state_free /\ nXfer >= 1 /\ xferLen >= 1)
        => /\ (i2c_getProgress = 0) <=> (failCode = -1)
           /\ failCode # -1 => (i2c_getProgress # 0 /\ i2c_getStatus = failCode)

\* C4: in a master read of length N >= 1 the handler sets the acknowledge bit
\* at the address-acknowledged event and after each stored byte iff the byte
\* to come is not the Nth; the bytes received were acknowledged except the
\* Nth, and no more than N bytes are clocked in.
C4_LastByteAck ==
    (IsReadXfer /\ xferLen >= 1)
        => /\ Len(ackLog) <= xferLen
           /\ \A i \in 1 .. Len(ackLog) : ackLog[i] = (i < xferLen)
           /\ (state = i2c_state_masterRead
                 /\ status \in {i2c_status_masterRead_addrAck,
                                i2c_status_masterRead_dataAck}
                 /\ nInv >= 2)
              => (("TWEA" \in twcr) <=> (Len(ackLog) + 1 < xferLen))

\* C4 witness: a read of two bytes has completed, the first byte acknowledged
\* and the second not.
C4_Witness ==
    /\ IsReadXfer /\ xferLen = 2 /\ state = i2c_state_free
    /\ status = i2c_status_masterRead_dataNak
    /\ ackLog = <<TRUE, FALSE>>

\* C5: in a transfer of length 0 the handler invocation for the first
\* address event sets state to Idle, and no invocation accesses a byte
\* through the buffer pointer.
C5_ZeroLength ==
    [][ (nXfer' >= 1 /\ xferLen' = 0)
        => /\ acc' = {}
           /\ (HandlerStep
                 /\ EventCode \in {i2c_status_masterWrite_addrAck,
                                   i2c_status_masterWrite_addrNak,
                                   i2c_status_masterRead_addrAck,
                                   i2c_status_masterRead_addrNak})
              => state' = i2c_state_free ]_vars

\* C6: start <= cursor <= end in every state, and a handler invocation
\* changes the cursor by 0 or by +1.
C6_CursorInBuffer ==
    [][ /\ dataStart' <= dataPtr' /\ dataPtr' <= dataEnd'
        /\ HandlerStep => dataPtr' \in {dataPtr, dataPtr + 1} ]_vars

\* C7: every terminal event (write completed, write NAK, read last byte, read
\* address NAK, arbitration lost, bus error, unrecognized status) sets state
\* to Idle with lastStatus the event's code, and after initialization state
\* is Idle, MasterWriting or MasterReading.
C7_TerminalPaths ==
    [][ /\ (HandlerStep
              /\ \/ EventCode \in {i2c_status_masterWrite_addrAck,
                                   i2c_status_masterWrite_dataAck}
                       /\ dataPtr = dataEnd
                 \/ EventCode \in {i2c_status_masterWrite_addrNak,
                                   i2c_status_masterWrite_dataNak,
                                   i2c_status_masterRead_dataNak,
                                   i2c_status_masterRead_addrNak,
                                   i2c_status_master_lost,
                                   i2c_status_error}
                 \/ EventCode \notin HandledCodes)
           => (state' = i2c_state_free /\ status' = EventCode)
        /\ state' \in {i2c_state_free, i2c_state_masterWrite,
                       i2c_state_masterRead} ]_vars

C9_NoRepeatedStart ==
    [][ (HandlerStep /\ chained /\ HoldBus /\ xferLen >= 1
            /\ state = i2c_state_masterWrite)
        => (EventCode \notin StartCodes /\ stops' = 0) ]_vars

\* C9 amended: a write that completes with HoldBus set issues no stop
\* condition (it writes only the enable bit, so the bus stays claimed), and
\* the write started right after it begins with exactly one repeated-start
\* event, on which the handler loads the address byte again and issues no
\* stop; only then do the data bytes follow.
C9_HeldSegments ==
    [][ /\ (HandlerStep /\ state = i2c_state_masterWrite /\ HoldBus
              /\ state' = i2c_state_free /\ EventCode \in WriteCodes)
           => (twcr' = {"TWEN"} /\ stops' = 0 /\ busHeld')
        /\ (HandlerStep /\ chained /\ HoldBus /\ xferLen >= 1
              /\ state = i2c_state_masterWrite)
           => /\ (nInv = 0) <=> (EventCode = i2c_status_master_repeatedStart)
              /\ EventCode # i2c_status_master_start
              /\ nInv = 0 => (twdr' = deviceAddr /\ "TWSTO" \notin twcr') ]_vars

\* C9 witness: the second segment of a held write has been sent completely.
C9_Witness ==
    /\ chained /\ HoldBus /\ IsWriteXfer /\ nXfer = 2
    /\ state = i2c_state_free /\ failCode = -1
    /\ xferLen >= 1 /\ i2c_getProgress = 0

\* The step is a call of i2c_master_write or i2c_master_read.
StartStep == nXfer' = nXfer + 1
\* Direction bit of the state: 0 for MasterWriting, 1 for MasterReading.
DirBit(s) == IF s = i2c_state_masterRead THEN 1 ELSE 0

\* C16: a start call made while Idle sets state to MasterWriting or
\* MasterReading, start = cursor = buffer, end = buffer + length (16 bit),
\* flags as given, the address byte to (address * 2) mod 256 plus the
\* direction bit of the state, and writes the start bit with the interrupt
\* enabled; the byte loaded at a start event has the direction bit of the
\* state and, for a 7 bit address, the address in bits 7..1.
C16_StartArms ==
    [][ /\ StartStep
           => /\ state = i2c_state_free
              /\ state' \in {i2c_state_masterWrite, i2c_state_masterRead}
              /\ dataStart' = BufBase /\ dataPtr' = BufBase
              /\ dataEnd' = (BufBase + xferLen') % PtrMod
              /\ flag' = xferFlag'
              /\ deviceAddr' = ((xferAddr' * 2) % ByteMod) + DirBit(state')
              /\ twcr' = {"TWINT", "TWSTA", "TWEN", "TWIE"}
        /\ (HandlerStep /\ EventCode \in StartCodes)
           => /\ twdr' % 2 = DirBit(state)
              /\ xferAddr < 128 => twdr' \div 2 = xferAddr ]_vars

\* C16 witness: a read from the 7 bit address 39 has loaded the address byte
\* 79 at its start event.
C16_Witness ==
    /\ state = i2c_state_masterRead /\ xferAddr = 39
    /\ status = i2c_status_master_start /\ nInv = 1
    /\ twdr = 79 /\ deviceAddr = 79

\* The handler is invoked on a successful completion: a write's acknowledge
\* event with no byte left, or a read's last byte.
Completion ==
    /\ HandlerStep
    /\ \/ /\ state = i2c_state_masterWrite
          /\ EventCode \in {i2c_status_masterWrite_addrAck,
                            i2c_status_masterWrite_dataAck}
          /\ dataPtr = dataEnd
       \/ /\ state = i2c_state_masterRead
          /\ EventCode = i2c_status_masterRead_dataNak

\* C18: on a successful completion the handler sets state to Idle and writes
\* the stop bit iff HoldBus is clear; with HoldBus set the control value has
\* neither the stop bit nor the interrupt flag nor the interrupt enable, and
\* the bus stays claimed.
C18_HoldOrRelease ==
    [][ Completion
        => /\ state' = i2c_state_free
           /\ ("TWSTO" \in twcr') <=> ~HoldBus
           /\ HoldBus => (twcr' \cap {"TWSTO", "TWINT", "TWIE"} = {} /\ busHeld')
           /\ ~HoldBus => ~busHeld' ]_vars

\* C18 witness: a read of at least one byte has completed with HoldBus set;
\* only the enable bit was written.
C18_Witness ==
    /\ IsReadXfer /\ HoldBus /\ xferLen >= 1
    /\ state = i2c_state_free
    /\ status = i2c_status_masterRead_dataNak
    /\ twcr = {"TWEN"} /\ busHeld /\ stops = 0

\* The flags with the retry bit cleared.
WithoutRetry(f) == f - AndBit(f, i2c_flag_retry)

\* C20: no handler invocation writes the start bit; the start bit is only
\* written by a start call and stays until the handler's next write; after
\* arbitration loss, a bus error, an unrecognized code or a read address NAK
\* the transfer is Idle with the cursor where it was and no further event is
\* delivered, whatever the flags; and the handler leaves the flags alone and
\* writes on a terminal branch the control value it would write with the
\* retry bit cleared.
C20_NoRetry ==
    [][ /\ HandlerStep => ("TWSTA" \notin twcr' /\ flag' = flag)
        /\ ("TWSTA" \in twcr' /\ ~StartStep) => (twcr' = twcr /\ ~HandlerStep)
        /\ (HandlerStep
              /\ EventCode \in FaultCodes \cup {i2c_status_masterRead_addrNak})
           => /\ state' = i2c_state_free
              /\ dataPtr' = dataPtr
              /\ Deliverable' = {}
              /\ twcr' = (IF EventCode = i2c_status_master_lost
                             \/ EventCode \in UnrecognizedCodes
                          THEN {"TWINT", "TWEN"}
                          ELSE {"TWINT", "TWSTO", "TWEN"})
        /\ (HandlerStep /\ state' = i2c_state_free
              /\ EventCode \in WriteCodes \cup {i2c_status_masterRead_dataNak})
           => twcr' = (IF WithoutRetry(flag) = i2c_flag_holdControl
                       THEN {"TWEN"} ELSE {"TWINT", "TWSTO", "TWEN"}) ]_vars

\* C20 witness: a write with the retry flag set has lost arbitration with
\* bytes left: the transfer is Idle, the start bit is not set and no event
\* can follow.
C20_Witness ==
    /\ IsWriteXfer /\ AndBit(flag, i2c_flag_retry) # 0
    /\ state = i2c_state_free
    /\ status = i2c_status_master_lost
    /\ i2c_getProgress > 0
    /\ "TWSTA" \notin twcr /\ Deliverable = {}

\* C21: in a read of N >= 1 bytes the i-th data-received event is a data-ack
\* for i < N and a data-nak for i = N, stores the received byte at
\* buffer[i-1] and nothing else, and advances the cursor by one; a read that
\* comes back to Idle without a failure has stored N bytes at
\* buffer[0..N-1], has progress 0, and no read ever stores outside the buffer.
C21_ReadStores ==
    [][ /\ (HandlerStep /\ IsReadXfer /\ xferLen >= 1
              /\ EventCode \in {i2c_status_masterRead_dataAck,
                                i2c_status_masterRead_dataNak})
           => /\ Len(ackLog) < xferLen
              /\ dataPtr = BufBase + Len(ackLog)
              /\ (EventCode = i2c_status_masterRead_dataNak)
                    <=> (Len(ackLog) + 1 = xferLen)
              /\ mem' = [mem EXCEPT ![BufBase + Len(ackLog)] = twdr']
              /\ dataPtr' = dataPtr + 1
        /\ (IsReadXfer' /\ xferLen' >= 1)
           => acc' \subseteq BufBase .. (BufBase + xferLen' - 1)
        /\ (IsReadXfer' /\ xferLen' >= 1 /\ nInv' >= 1
              /\ state' = i2c_state_free /\ failCode' = -1)
           => /\ i2c_getProgress' = 0
              /\ Len(ackLog') = xferLen'
              /\ acc' = BufBase .. (BufBase + xferLen' - 1) ]_vars

\* C21 witness: a read of three bytes has completed and the buffer holds the
\* bytes 60, 195, 60 in arrival order.
C21_Witness ==
    /\ IsReadXfer /\ xferLen = 3 /\ state = i2c_state_free
    /\ status = i2c_status_masterRead_dataNak
    /\ mem[BufBase] = 60 /\ mem[BufBase + 1] = 195 /\ mem[BufBase + 2] = 60
    /\ i2c_getProgress = 0

\* C22: in a write of N bytes in which every event so far was a success, the
\* first invocation is the start event and loads the address byte with
\* direction bit 0, invocations 2 .. N + 1 are acknowledge events and load
\* buffer[0] .. buffer[N-1] in order, advancing the cursor, and invocation
\* N + 2 is the acknowledge event that finds cursor = end: it loads nothing,
\* sets state Idle and writes the stop or the hold control value.
C22_WriteLoads ==
    [][ (HandlerStep /\ IsWriteXfer /\ failCode' = -1)
        => /\ nInv <= xferLen + 1
           /\ nInv = 0
                => /\ EventCode \in StartCodes
                   /\ twdr' = (xferAddr * 2) % ByteMod
           /\ nInv = 1 => EventCode = i2c_status_masterWrite_addrAck
           /\ nInv >= 2 => EventCode = i2c_status_masterWrite_dataAck
           /\ (1 <= nInv /\ nInv <= xferLen)
                => /\ twdr' = mem[BufBase + nInv - 1]
                   /\ dataPtr' = BufBase + nInv
                   /\ state' = i2c_state_masterWrite
           /\ nInv = xferLen + 1
                => /\ twdr' = twdr
                   /\ dataPtr' = dataPtr /\ dataPtr = dataEnd
                   /\ state' = i2c_state_free
                   /\ twcr' = (IF HoldBus THEN {"TWEN"}
                               ELSE {"TWINT", "TWSTO", "TWEN"}) ]_vars

\* C22 witness: a write of three bytes has completed after five handler
\* invocations, the last byte loaded being buffer[2].
C22_Witness ==
    /\ IsWriteXfer /\ xferLen = 3 /\ failCode = -1
    /\ state = i2c_state_free /\ nInv = 5
    /\ status = i2c_status_masterWrite_dataAck
    /\ twdr = mem[BufBase + 2]
    /\ i2c_getProgress = 0

\* C23: on the address-NAK event of a read (0x48) the handler sets state to
\* Idle, leaves the cursor and the data space unchanged, so that the
\* progress is still the full length, and writes the stop control value with
\* the interrupt enable clear, whether or not HoldBus is set.
C23_ReadAddrNak ==
    [][ (HandlerStep /\ state = i2c_state_masterRead
           /\ EventCode = i2c_status_masterRead_addrNak)
        => /\ state' = i2c_state_free
           /\ dataPtr' = dataPtr
           /\ mem' = mem
           /\ i2c_getProgress' = xferLen
           /\ twcr' = {"TWINT", "TWSTO", "TWEN"}
           /\ ~busHeld' ]_vars

\* C23 witness: a read of two bytes with HoldBus set was ended by the
\* address NAK; a stop was issued and the progress is still 2.
C23_Witness ==
    /\ IsReadXfer /\ HoldBus /\ xferLen = 2
    /\ state = i2c_state_free
    /\ status = i2c_status_masterRead_addrNak
    /\ i2c_getProgress = 2
    /\ "TWSTO" \in twcr /\ stops = 1

\* C25: a handler invocation runs only in MasterWriting or MasterReading and
\* writes a control value whose interrupt enable bit is set iff the state it
\* leaves is not Idle; while the state is Idle no event is deliverable, and
\* every step other than a start call leaves state, cursor, end and
\* lastStatus as they are.
C25_InterruptIffActive ==
    [][ /\ HandlerStep
           => /\ state \in {i2c_state_masterWrite, i2c_state_masterRead}
              /\ ("TWIE" \in twcr') <=> (state' # i2c_state_free)
        /\ state' = i2c_state_free => Deliverable' = {}
        /\ (state = i2c_state_free /\ ~StartStep)
           => (~HandlerStep /\ UNCHANGED <<state, dataPtr, dataEnd, status>>) ]_vars

\* C25 witness: a write has completed with the bus held; the interrupt is
\* disabled and no event can be delivered.
C25_Witness ==
    /\ IsWriteXfer /\ HoldBus /\ failCode = -1 /\ nInv >= 2
    /\ state = i2c_state_free
    /\ twcr = {"TWEN"}
    /\ Deliverable = {}

(***************************************************************************)
(* Properties of both engines.                                             *)
(***************************************************************************)
\* The step is one invocation of uart_sendAuto_ISR.
TxHandlerStep == nTxInv' = nTxInv + 1

\* C10: the progress values observed between handler invocations of a
\* transfer start at its length and never increase (16 bit arithmetic).
C10_ProgressMonotone ==
    [][ /\ (nXfer' = nXfer + 1) => (i2c_getProgress' = xferLen')
        /\ HandlerStep => (i2c_getProgress' <= i2c_getProgress)
        /\ (nTx' = nTx + 1 /\ ~manualSince')
           => (uart_sendAutoProgress' = txLen')
        /\ (TxHandlerStep /\ ~manualSince)
           => (uart_sendAutoProgress' <= uart_sendAutoProgress) ]_vars

(***************************************************************************)
(* Properties of the UART transmitter.                                     *)
(***************************************************************************)
\* A stream started by uart_sendAuto is under way or has ended, and no
\* manual byte was sent since.
InStream == nTx >= 1 /\ ~manualSince

\* C11: in a stream of length L >= 1 the handler is invoked L times, the
\* progress is L minus the invocations so far (so 0 only after the L-th), the
\* L-th invocation writes nothing, and the data register is written L times
\* in all, with buffer[0] .. buffer[L-1] in that order.
C11_StreamCompletion ==
    (InStream /\ txLen >= 1)
        => /\ nTxInv <= txLen
           /\ uart_sendAutoProgress = txLen - nTxInv
           /\ Len(udrLog) = (IF nTxInv < txLen THEN nTxInv + 1 ELSE txLen)
           /\ \A i \in 1 .. Len(udrLog) : udrLog[i] = Pattern(BufBase + i - 1)

\* C11 witness: a stream of two bytes has completed after two handler
\* invocations and two data register writes.
C11_Witness ==
    /\ InStream /\ txLen = 2 /\ nTxInv = 2
    /\ uart_sendAutoProgress = 0
    /\ Len(udrLog) = 2
    /\ ~tsrBusy /\ udre /\ ~txc

\* The whole of test.c's msg, as written to the data register.
MsgSent ==
    /\ Len(udrLog) = MsgLen
    /\ \A i \in 1 .. MsgLen : udrLog[i] = Pattern(BufBase + i - 1)

\* C12: in test.c's main loop, with weakly fair transmitter, interrupt and
\* foreground, every wait for progress 0 ends; from completion to the next
\* uart_sendString nothing is written to the data register and the handler is
\* not invoked; every iteration leaves its wait with the whole 26 byte message
\* written after 26 handler invocations, and iterations keep coming.
C12_MainLoop ==
    /\ (pc = "wait") ~> (pc = "ready")
    /\ []<>(pc = "send")
    /\ [][ /\ (nTx >= 1 /\ uart_sendAutoProgress = 0 /\ pc # "send")
              => (udrLog' = udrLog /\ nTxInv' = nTxInv)
           /\ (pc = "wait" /\ pc' = "ready")
              => (MsgSent /\ nTxInv = MsgLen) ]_vars

\* C12 witness: the second iteration has sent the whole message and left its
\* wait loop.
C12_Witness ==
    /\ pc = "ready" /\ nTx = 2
    /\ MsgSent /\ nTxInv = MsgLen
    /\ uart_sendAutoProgress = 0

\* C13: for every stream length L >= 0 the cursor stays between the start of
\* the buffer and end, and a handler invocation that finds the cursor at end
\* neither advances it nor writes the data register.
C13_TxCursorInBuffer ==
    [][ /\ InStream' => (BufBase <= tx_ptr' /\ tx_ptr' <= tx_end')
        /\ (TxHandlerStep /\ InStream /\ tx_ptr = tx_end)
           => (tx_ptr' = tx_ptr /\ udrLog' = udrLog) ]_vars

\* C14: uart_sendAutoProgress(), evaluated while the handler may run between
\* the loads of the cursor's two bytes, returns 0 only when the cursor has
\* reached end.
C14_NoFalseCompletion ==
    (InStream /\ ret = <<"uart_sendAutoProgress", 0>>) => tx_ptr = tx_end

\* C17: after uart_init(uart, sfr, f_cpu, baud, mode), for every mode: the
\* double-speed bit and the divisor 8 iff uart_mode_speedDouble is in mode
\* (else 16), two stop bits iff uart_mode_stop2 is in mode, and per direction
\* enable plus interrupt enable and the recorded mode Auto iff the auto flag
\* is in mode, enable only and Manual iff only the manual flag is, neither
\* bit and no recorded mode iff neither flag is.
C17_InitHonoursConfig ==
    cfgArg # <<>>
        => LET f_cpu == cfgArg[1]
               baud == cfgArg[2]
               mode == cfgArg[3]
               Has(x) == AndBit(mode, x) # 0
               Direction(auto, manual, en, ie) ==
                   IF Has(auto)
                   THEN /\ {en, ie} \subseteq ucsrb
                        /\ AndBit(uartMode, auto) # 0
                        /\ AndBit(uartMode, manual) = 0
                   ELSE IF Has(manual)
                   THEN /\ en \in ucsrb /\ ie \notin ucsrb
                        /\ AndBit(uartMode, auto) = 0
                        /\ AndBit(uartMode, manual) # 0
                   ELSE /\ en \notin ucsrb /\ ie \notin ucsrb
                        /\ AndBit(uartMode, auto) = 0
                        /\ AndBit(uartMode, manual) = 0
           IN  /\ ("U2X0" \in ucsra) <=> Has(uart_mode_speedDouble)
               /\ ubrr = ((f_cpu \div (IF Has(uart_mode_speedDouble) THEN 8 ELSE 16))
                              \div baud - 1) % PtrMod
               /\ ("USBS0" \in ucsrc) <=> Has(uart_mode_stop2)
               /\ Direction(uart_mode_txAuto, uart_mode_txManual, "TXEN0", "TXCIE0")
               /\ Direction(uart_mode_rxAuto, uart_mode_rxManual, "RXEN0", "RXCIE0")

\* C26: no invocation of the handler runs between uart_sendAuto's store to
\* the data register and its assignments of tx_ptr and tx_end.
C26_BindBeforeEvent ==
    [][ TxHandlerStep => pc # "bind" ]_vars

\* C27: with no stream outstanding (cursor = end), the handler invocation
\* for the transmit event of a uart_sendManual byte leaves
\* uart_sendAutoProgress() at 0 and the cursor not beyond end, and writes
\* nothing to the data register.
C27_ManualLeavesStream ==
    [][ (TxHandlerStep /\ manualSince /\ tx_ptr = tx_end)
        => /\ uart_sendAutoProgress' = 0
           /\ tx_ptr' <= tx_end'
           /\ udrLog' = udrLog ]_vars

\* C28: every byte the I2C handler reads or stores through the cursor, the
\* byte uart_sendAuto reads first and every byte the UART handler reads next
\* lie at an index i with 0 <= i < length of the buffer bound to the transfer,
\* for every length >= 0.
C28_AccessInBuffer ==
    [][ /\ acc' \subseteq BufBase .. (BufBase + xferLen' - 1)
        /\ (nTx' = nTx + 1 /\ ~manualSince') => txLen' >= 1
        /\ (TxHandlerStep /\ udrLog' # udrLog)
           => tx_ptr' \in BufBase .. (BufBase + txLen - 1) ]_vars

(***************************************************************************)
(* Properties of the observers.                                            *)
(***************************************************************************)
\* The step is a call of an observer.
ObserverStep == ret' # <<>>

\* C15: a call of i2c_getState, i2c_getStatus, i2c_getProgress or
\* uart_sendAutoProgress changes no field of either context, no hardware
\* register and no byte of the data space, and returns state, lastStatus and
\* end - cursor (16 bit) of its context.
C15_ObserversPure ==
    [][ ObserverStep
        => /\ UNCHANGED <<i2cVars, twiVars, uartVars, cfgVars, mem>>
           /\ ret'[1] = "i2c_getState" => ret'[2] = state
           /\ ret'[1] = "i2c_getStatus" => ret'[2] = status
           /\ ret'[1] = "i2c_getProgress"
                => ret'[2] = (dataEnd - dataPtr + PtrMod) % PtrMod
           /\ ret'[1] = "uart_sendAutoProgress"
                => ret'[2] = (tx_end - tx_ptr + PtrMod) % PtrMod ]_vars

\* C15 witness: i2c_getProgress was called between two handler invocations
\* of a read of two bytes, after the first byte was stored, and returned 1.
C15_Witness ==
    /\ ret = <<"i2c_getProgress", 1>>
    /\ state = i2c_state_masterRead /\ xferLen = 2
    /\ status = i2c_status_masterRead_dataAck

\* C19: a handler invocation leaves lastStatus equal to the status register
\* it read with the low three bits cleared; no other step (i2c_init, the
\* start calls, the observers) changes lastStatus, so from the first event
\* on lastStatus is the masked status register of the latest event, and
\* that is what i2c_getStatus returns.
C19_StatusRetained ==
    [][ /\ HandlerStep => status' = (twsr' \div 8) * 8
        /\ ~HandlerStep => (status' = status /\ twsr' = twsr)
        /\ twsr' # i2c_status_free => status' = (twsr' \div 8) * 8
        /\ (ObserverStep /\ ret'[1] = "i2c_getStatus" /\ twsr # i2c_status_free)
           => ret'[2] = (twsr \div 8) * 8 ]_vars

\* C19 witness: a read has completed, the next transfer has been started and
\* has had no event yet, and i2c_getStatus still returns the last-byte status
\* of the completed read, taken from a status register with low bits set.
C19_Witness ==
    /\ nXfer = 2 /\ nInv = 0
    /\ state = i2c_state_masterWrite
    /\ twsr = i2c_status_masterRead_dataNak + 3
    /\ ret = <<"i2c_getStatus", i2c_status_masterRead_dataNak>>

(***************************************************************************)
(* Properties of the LCD driver.                                           *)
(***************************************************************************)
\* The step is a call of lcd1602_evt.
TickStep == rp' # rp
\* Position of rp in the refresh cycle: 0 .. 15 row 0, 16 the command for
\* row 1, 17 .. 32 row 1, 33 the command for row 0.
CyclePos(x) == IF x <= 16 THEN x ELSE x - 15

\* C24: rp is always in 0x00 .. 0x10 or 0x20 .. 0x30; a call of lcd1602_evt
\* writes exactly one byte to the module and moves one step along the cycle
\* of 34: data buffer[0][0..15], command 0xC0, data buffer[1][0..15], command
\* 0x80; it leaves the buffer alone; lcd1602_writec and lcd1602_writes write
\* nothing to the module and leave rp alone.
C24_RefreshCycle ==
    [][ /\ rp' \in (0 .. 16) \cup (32 .. 48)
        /\ TickStep
           => /\ Len(lcdOut') = 1
              /\ CyclePos(rp') = (CyclePos(rp) + 1) % 34
              /\ lcdOut'[1] =
                   (LET p == CyclePos(rp)
                    IN  IF p < 16 THEN [rs |-> 1, byte |-> lcdBuf[0][p]]
                        ELSE IF p = 16 THEN [rs |-> 0, byte |-> 192]
                        ELSE IF p < 33 THEN [rs |-> 1, byte |-> lcdBuf[1][p - 17]]
                        ELSE [rs |-> 0, byte |-> 128])
              /\ lcdBuf' = lcdBuf
        /\ ~TickStep => (lcdOut' = <<>> /\ rp' = rp) ]_vars

\* C24 witness: a whole cycle has ended with the command for row 0, after
\* the string written to the end of row 1 was sent.
C24_Witness ==
    /\ rp = 0
    /\ lcdOut = <<[rs |-> 0, byte |-> 128]>>
    /\ lcdBuf[1][14] = 66 /\ lcdBuf[1][15] = 67

=============================================================================
